---- MODULE Spec2Model ----
(***************************************************************************)
(* Model of the DigitalOcean GPU droplet tooling:                          *)
(*   - deploy_gpu_droplet.py: DigitalOceanAPI.wait_for_droplet (the poll   *)
(*     loop) and main (the provisioning workflow);                         *)
(*   - mcp_server.py: get_api_client and call_tool (the tool dispatcher).  *)
(* The remote service, the clock and the process environment are the       *)
(* nondeterministic inputs.                                                *)
(***************************************************************************)
EXTENDS Integers, Sequences, FiniteSets, TLC

VARIABLES
    \* ---- clock and wait_for_droplet (deploy_gpu_droplet.py) ----
    clock,        \* time.time(), in whole seconds
    w_pc,         \* position in wait_for_droplet
    w_id,         \* parameter droplet_id
    timeout,      \* parameter timeout
    start_time,   \* local start_time
    droplet,      \* local droplet (document of the latest poll)
    w_out,        \* how the call ended: returned document or raised exception
    \* observations of the call, written by the remote side
    nGet,         \* number of get-droplet requests issued
    nSleep,       \* number of time.sleep(5) calls
    polled,       \* document the remote returned to the latest poll
    firstTerm,    \* index of the first poll that observed "active"/"error", 0 if none
    termDoc,      \* document the remote returned to that poll
    reqFailed,    \* a get-droplet request raised instead of returning
    \* ---- main (deploy_gpu_droplet.py) ----
    env,          \* os.environ: DIGITALOCEAN_API_TOKEN, SNAPSHOT_ID, WAIT_FOR_ACTIVE
    m_pc,         \* position in main
    config,       \* local config (the entries the control flow reads)
    m_droplet,    \* local droplet
    m_exit,       \* exit code of the process, NotExited while it runs
    m_stdout,     \* the JSON document printed at the end, NoDoc if none
    m_stderr,     \* the exception printed to stderr, NoExc if none
    m_warned,     \* the "No GPU sizes found" warning was printed
    m_reqs,       \* remote requests main issued itself, whether the remote served them,
                  \* and for the create request the document create_droplet returned
    \* ---- the tool dispatch server (mcp_server.py) ----
    s_env,        \* os.environ["DIGITALOCEAN_API_TOKEN"] of the server process
    api_client,   \* the module-level api_client
    s_serial,     \* number of DigitalOceanAPI instances constructed so far
    s_first,      \* the first instance constructed, NoClient before
    s_calls,      \* number of call_tool requests handled
    s_errors,     \* how many of them were answered with an "Error: " text
    s_last,       \* the latest call_tool request: inputs, requests issued, outcome
    \* ---- one DigitalOceanAPI method called on its own (both files) ----
    a_call,       \* the latest call: the method, what was passed, the remote's answer
    a_request,    \* the request it handed to the HTTP library, NoRequest if none
    a_out         \* what the caller got: Ok(value) or Raise(exception)

waitVars == <<clock, w_pc, w_id, timeout, start_time, droplet, w_out,
              nGet, nSleep, polled, firstTerm, termDoc, reqFailed>>

mainVars == <<env, m_pc, config, m_droplet, m_exit, m_stdout, m_stderr, m_warned, m_reqs>>

srvVars == <<s_env, api_client, s_serial, s_first, s_calls, s_errors, s_last>>

apiVars == <<a_call, a_request, a_out>>

vars == <<waitVars, mainVars, srvVars, apiVars>>

-----------------------------------------------------------------------------
(* Bounds of the model *)

\* seconds one wait_for_droplet call may lose, over all its requests (their
\* latency) and all its sleeps (their oversleep) together
MaxDrift == 6
\* call_tool requests one server run handles
MaxCalls == 3

(* Program constants *)

\* time.sleep(5)
PollInterval == 5
\* timeout: int = 300
DefaultTimeout == 300

-----------------------------------------------------------------------------
(* Values *)

NoDoc == [none |-> TRUE]
\* identifiers as the text an f-string gives them
DropletIds == {"7"}
Addresses == {"10.0.0.1", "10.0.0.2"}
RemoteStatuses == {"new", "active", "error"}

\* droplet documents the remote can return; a document may lack "status"
DropletDocs ==
    [id : DropletIds, status : RemoteStatuses, ip : Addresses]
        \cup [id : DropletIds, ip : Addresses]

\* what an HTTP exchange can come to
HttpMessages == {"not found"}
RawBodies == {"<html>502</html>"}
HttpErrors ==
    [kind : {"http_error"}, body : {"json_message"}, message : HttpMessages,
     line : {"404 Client Error"}]
    \cup [kind : {"http_error"}, body : {"json_other"}, line : {"500 Server Error"}]
    \cup [kind : {"http_error"}, body : {"not_json"}, text : RawBodies,
          line : {"502 Server Error"}]
TransportErrors == {[kind |-> "transport"]}
BadJson == {[kind |-> "bad_json"]}

-----------------------------------------------------------------------------
(* DigitalOceanAPI._make_request: what the caller gets for a response *)

Exc(type, msg) == [type |-> type, msg |-> msg]
Ok(v) == [ok |-> TRUE, val |-> v]
Raise(e) == [ok |-> FALSE, exc |-> e]

\* the response body is never read: the text stays the status line
ErrorMsgStatusLine(r) == <<"API Error: ", r.line>>

\* the error text built in the HTTPError handler; 'message' in error_data
\* raises TypeError on a JSON number, which the bare except turns into the raw text
ErrorMsg(r) ==
    IF r.body = "json_message" THEN <<"API Error: ", r.message>>
    ELSE IF r.body \in {"not_json", "json_number"} THEN <<"API Error: ", r.text>>
    ELSE <<"API Error: ", r.line>>

\* r is the exchange; on success r.json is the parsed body
MakeRequest(r) ==
    CASE r.kind = "ok"         -> Ok(r.json)
      [] r.kind = "http_error" -> Raise(Exc("Exception", ErrorMsg(r)))
      [] r.kind = "transport"  -> Raise(Exc("ConnectionError", <<"connection failed">>))
      [] r.kind = "bad_json"   -> Raise(Exc("JSONDecodeError", <<"Expecting value">>))

Failures == HttpErrors \cup TransportErrors \cup BadJson

\* dict.get(key, default)
Get(d, key, default) == IF key \in DOMAIN d THEN d[key] ELSE default

\* {} and a response body without the envelope key
EmptyDoc == [k \in {} |-> ""]
NoKeyBody == [links |-> "next"]

\* DigitalOceanAPI.get_droplet: response.get("droplet", {}) of GET /droplets/{id}
GetDropletExchanges ==
    [kind : {"ok"}, json : [droplet : DropletDocs] \cup {NoKeyBody}] \cup Failures

GetDroplet(r) ==
    LET res == MakeRequest(r)
    IN  IF res.ok THEN Ok(Get(res.val, "droplet", EmptyDoc)) ELSE res

-----------------------------------------------------------------------------
(* DigitalOceanAPI.wait_for_droplet *)

\* droplet.get("status", "")
StatusOf(d) == IF "status" \in DOMAIN d THEN d.status ELSE ""

\* the comparison turned round
WithinBudgetReversed(now, start, limit) == now - start > limit

\* the budget compared with <= instead of <
WithinBudgetInclusive(now, start, limit) == now - start <= limit

\* while time.time() - start_time < timeout
WithinBudget(now, start, limit) == now - start < limit

\* the "active" branch lost: the loop goes on polling an active droplet
PollVerdictNoActive(status) ==
    IF status = "error" THEN "raise" ELSE "sleep"

\* the "error" branch lost: the loop goes on polling a failed droplet
PollVerdictNoError(status) ==
    IF status = "active" THEN "return" ELSE "sleep"

\* the if/elif on status inside the loop
PollVerdict(status) ==
    IF status = "active" THEN "return"
    ELSE IF status = "error" THEN "raise"
    ELSE "sleep"

ErrorStateExc(id) ==
    Exc("Exception", <<"Droplet ", id, " entered error state">>)

TimeoutExc(id, limit) ==
    Exc("TimeoutError", <<"Droplet ", id, " did not become active within ",
                          ToString(limit), " seconds">>)

Running == [kind |-> "running"]
Returned(d) == [kind |-> "returned", doc |-> d]
Raised(e) == [kind |-> "raised", exc |-> e]

\* seconds lost so far when the clock reads now after sleeps sleeps
Drift(now, sleeps) == now - start_time - PollInterval * sleeps

\* start_time = time.time()
WaitStart ==
    /\ w_pc = "start"
    /\ start_time' = clock
    /\ w_pc' = "check"
    /\ UNCHANGED <<clock, w_id, timeout, droplet, w_out,
                   nGet, nSleep, polled, firstTerm, termDoc, reqFailed>>

\* the while condition; past the budget the loop is left and TimeoutError raised
WaitCheck ==
    /\ w_pc = "check"
    /\ IF WithinBudget(clock, start_time, timeout)
       THEN /\ w_pc' = "poll"
            /\ UNCHANGED w_out
       ELSE /\ w_pc' = "done"
            /\ w_out' = Raised(TimeoutExc(w_id, timeout))
    /\ UNCHANGED <<clock, w_id, timeout, start_time, droplet,
                   nGet, nSleep, polled, firstTerm, termDoc, reqFailed>>

\* droplet = self.get_droplet(droplet_id) and the if/elif on its status
WaitPoll ==
    /\ w_pc = "poll"
    /\ \E r \in GetDropletExchanges, lat \in 0..MaxDrift :
         LET res == GetDroplet(r)
         IN  /\ Drift(clock + lat, nSleep) <= MaxDrift
             /\ clock' = clock + lat
             /\ nGet' = nGet + 1
             /\ IF ~res.ok
                THEN /\ w_pc' = "done"
                     /\ w_out' = Raised(res.exc)
                     /\ reqFailed' = TRUE
                     /\ UNCHANGED <<droplet, polled, firstTerm, termDoc>>
                ELSE /\ droplet' = res.val
                     /\ LET sent == IF "droplet" \in DOMAIN r.json
                                     THEN r.json.droplet ELSE EmptyDoc
                        IN  /\ polled' = sent
                            /\ IF firstTerm = 0 /\ "status" \in DOMAIN sent
                                   /\ sent.status \in {"active", "error"}
                               THEN firstTerm' = nGet + 1 /\ termDoc' = sent
                               ELSE UNCHANGED <<firstTerm, termDoc>>
                     /\ UNCHANGED reqFailed
                     /\ LET v == PollVerdict(StatusOf(res.val))
                        IN  CASE v = "return" -> /\ w_pc' = "done"
                                                 /\ w_out' = Returned(res.val)
                              [] v = "raise"  -> /\ w_pc' = "done"
                                                 /\ w_out' = Raised(ErrorStateExc(w_id))
                              [] OTHER        -> /\ w_pc' = "sleep"
                                                 /\ UNCHANGED w_out
    /\ UNCHANGED <<w_id, timeout, start_time, nSleep>>

\* time.sleep(5)
WaitSleep ==
    /\ w_pc = "sleep"
    /\ \E over \in 0..MaxDrift :
         /\ Drift(clock + PollInterval + over, nSleep + 1) <= MaxDrift
         /\ clock' = clock + PollInterval + over
    /\ nSleep' = nSleep + 1
    /\ w_pc' = "check"
    /\ UNCHANGED <<w_id, timeout, start_time, droplet, w_out,
                   nGet, polled, firstTerm, termDoc, reqFailed>>

WaitSteps == WaitStart \/ WaitCheck \/ WaitPoll \/ WaitSleep


-----------------------------------------------------------------------------
(* main: the provisioning workflow *)

EnvNames == {"DIGITALOCEAN_API_TOKEN", "SNAPSHOT_ID", "WAIT_FOR_ACTIVE"}
Unset == [set |-> FALSE]
Value(v) == [set |-> TRUE, val |-> v]

\* only None counts as absent
TruthyIfSet(e) == e.set

\* truth value of os.getenv(name): None and "" are both false
Truthy(e) == e.set /\ e.val # ""

\* os.getenv(name, default)
GetEnv(e, default) == IF e.set THEN e.val ELSE default

\* str.lower() on the flag texts
Lower(t) == IF t \in {"TRUE", "True"} THEN "true" ELSE t

\* os.getenv(name, default).lower() == "true"
FlagIsTrue(e, default) == Lower(GetEnv(e, default)) = "true"

NoExc == [none |-> TRUE]
NotExited == [running |-> TRUE]
Exit(code) == [code |-> code]

\* descriptions of sizes, letter by letter
Basic == <<"B", "a", "s", "i", "c">>
GpuAccelerated == <<"G", "P", "U", " ", "A">>
GpuOptimized == <<"x", "-", "g", "p", "u">>
Descriptions == {Basic, GpuAccelerated, GpuOptimized}

LowerChar(c) ==
    CASE c = "G" -> "g" [] c = "P" -> "p" [] c = "U" -> "u"
      [] c = "B" -> "b" [] c = "A" -> "a" [] OTHER -> c

\* str.lower()
LowerText(t) == [i \in 1..Len(t) |-> LowerChar(t[i])]

\* str.find: 0-based index of the first occurrence, -1 if none
Find(t, sub) ==
    LET hits == {i \in 1..(Len(t) - Len(sub) + 1) : SubSeq(t, i, i + Len(sub) - 1) = sub}
    IN  IF hits = {} THEN -1 ELSE (CHOOSE i \in hits : \A j \in hits : i <= j) - 1

\* size.get("description", "")
DescriptionOf(size) == IF "description" \in DOMAIN size THEN size.description ELSE <<>>

IsGpuSize(size) == Find(LowerText(DescriptionOf(size)), <<"g", "p", "u">>) # -1

Size(slug, d) == [slug |-> slug, description |-> d]
SizeLists ==
    { <<>>,
      <<Size("s-1vcpu", Basic)>>,
      <<Size("s-1vcpu", Basic), Size("g-2vcpu", GpuAccelerated), Size("g-4vcpu", GpuOptimized)>>,
      <<Size("g-2vcpu", GpuAccelerated), [slug |-> "c-2"]>>,
      <<[slug |-> "c-2"]>> }

\* DigitalOceanAPI.get_gpu_sizes: the sizes of GET /sizes whose description holds "gpu"
SizesExchanges ==
    [kind : {"ok"}, json : [sizes : SizeLists] \cup {NoKeyBody}] \cup Failures

GetGpuSizes(r) ==
    LET res == MakeRequest(r)
    IN  IF ~res.ok THEN res
        ELSE Ok(SelectSeq(Get(res.val, "sizes", <<>>), IsGpuSize))

\* DigitalOceanAPI.get_snapshot: response.get("snapshot", {}) of GET /snapshots/{id}
Snapshots == {[id |-> "snap-1", name |-> "base"]}
SnapshotExchanges ==
    [kind : {"ok"}, json : [snapshot : Snapshots] \cup {NoKeyBody}] \cup Failures

GetSnapshot(r) ==
    LET res == MakeRequest(r)
    IN  IF res.ok THEN Ok(Get(res.val, "snapshot", EmptyDoc)) ELSE res

\* DigitalOceanAPI.create_droplet: response.get("droplet", {}) of POST /droplets
CreatedDocs == [id : DropletIds, status : {"new"}, ip : {"10.0.0.1"}]
CreateExchanges ==
    [kind : {"ok"}, json : [droplet : CreatedDocs] \cup {NoKeyBody}] \cup Failures

CreateDroplet(r) ==
    LET res == MakeRequest(r)
    IN  IF res.ok THEN Ok(Get(res.val, "droplet", EmptyDoc)) ELSE res

\* droplet.get("id"), as an f-string prints it
IdOf(d) == IF "id" \in DOMAIN d THEN d.id ELSE "None"

\* the handler prints the error and falls off the end of main
MainFailsExitZero(e) ==
    /\ m_stderr' = e
    /\ m_exit' = Exit(0)
    /\ m_pc' = "exited"

\* except Exception as e: print to stderr, sys.exit(1)
MainFails(e) ==
    /\ m_stderr' = e
    /\ m_exit' = Exit(1)
    /\ m_pc' = "exited"

\* api_token = os.getenv("DIGITALOCEAN_API_TOKEN"); if not api_token: sys.exit(1)
MainCheckToken ==
    /\ m_pc = "token"
    /\ IF ~Truthy(env["DIGITALOCEAN_API_TOKEN"])
       THEN m_exit' = Exit(1) /\ m_pc' = "exited"
       ELSE m_pc' = "config" /\ UNCHANGED m_exit
    /\ UNCHANGED <<env, config, m_droplet, m_stdout, m_stderr, m_warned, m_reqs>>
    /\ UNCHANGED waitVars

\* config = {...}; if not config["snapshot_id"]: sys.exit(1)
MainCheckSnapshotId ==
    /\ m_pc = "config"
    /\ config' = [snapshot_id |-> env["SNAPSHOT_ID"],
                  wait_for_active |-> FlagIsTrue(env["WAIT_FOR_ACTIVE"], "true")]
    /\ IF ~Truthy(env["SNAPSHOT_ID"])
       THEN m_exit' = Exit(1) /\ m_pc' = "exited"
       ELSE m_pc' = "snapshot" /\ UNCHANGED m_exit
    /\ UNCHANGED <<env, m_droplet, m_stdout, m_stderr, m_warned, m_reqs>>
    /\ UNCHANGED waitVars

\* snapshot = api.get_snapshot(config["snapshot_id"])
MainGetSnapshot ==
    /\ m_pc = "snapshot"
    /\ \E r \in SnapshotExchanges :
         LET res == GetSnapshot(r)
         IN  /\ m_reqs' = Append(m_reqs, [op |-> "get_snapshot", ok |-> r.kind = "ok"])
             /\ IF res.ok
                THEN m_pc' = "sizes" /\ UNCHANGED <<m_exit, m_stderr>>
                ELSE MainFails(res.exc)
    /\ UNCHANGED <<env, config, m_droplet, m_stdout, m_warned>>
    /\ UNCHANGED waitVars

\* gpu_sizes = api.get_gpu_sizes(); an empty list only prints a warning
MainGetGpuSizes ==
    /\ m_pc = "sizes"
    /\ \E r \in SizesExchanges :
         LET res == GetGpuSizes(r)
         IN  /\ m_reqs' = Append(m_reqs, [op |-> "get_sizes", ok |-> r.kind = "ok"])
             /\ IF res.ok
                THEN /\ m_pc' = "create"
                     /\ m_warned' = (res.val = <<>>)
                     /\ UNCHANGED <<m_exit, m_stderr>>
                ELSE MainFails(res.exc) /\ UNCHANGED m_warned
    /\ UNCHANGED <<env, config, m_droplet, m_stdout>>
    /\ UNCHANGED waitVars

\* droplet = api.create_droplet(...); droplet_id = droplet.get("id")
MainCreateDroplet ==
    /\ m_pc = "create"
    /\ \E r \in CreateExchanges :
         LET res == CreateDroplet(r)
         IN  /\ m_reqs' = Append(m_reqs, [op |-> "create_droplet", ok |-> r.kind = "ok",
                                           doc |-> IF res.ok THEN res.val ELSE NoDoc])
             /\ IF res.ok
                THEN /\ m_pc' = "created"
                     /\ m_droplet' = res.val
                     /\ UNCHANGED <<m_exit, m_stderr>>
                ELSE MainFails(res.exc) /\ UNCHANGED m_droplet
    /\ UNCHANGED <<env, config, m_stdout, m_warned>>
    /\ UNCHANGED waitVars

\* if config["wait_for_active"]: droplet = api.wait_for_droplet(droplet_id)
MainCallWait ==
    /\ m_pc = "created"
    /\ config.wait_for_active
    /\ m_pc' = "waiting"
    /\ w_pc' = "start"
    /\ w_id' = IdOf(m_droplet)
    /\ timeout' = DefaultTimeout
    /\ UNCHANGED <<clock, start_time, droplet, w_out,
                   nGet, nSleep, polled, firstTerm, termDoc, reqFailed>>
    /\ UNCHANGED <<env, config, m_droplet, m_exit, m_stdout, m_stderr, m_warned, m_reqs>>

\* waiting is off: straight to the final print
MainSkipWait ==
    /\ m_pc = "created"
    /\ ~config.wait_for_active
    /\ m_pc' = "emit"
    /\ UNCHANGED <<env, config, m_droplet, m_exit, m_stdout, m_stderr, m_warned, m_reqs>>
    /\ UNCHANGED waitVars

\* the result of wait_for_droplet is not assigned to droplet
MainWaitEndsKeepsCreated ==
    /\ m_pc = "waiting"
    /\ w_pc = "done"
    /\ IF w_out.kind = "returned"
       THEN /\ m_pc' = "emit"
            /\ UNCHANGED <<m_droplet, m_exit, m_stderr>>
       ELSE MainFails(w_out.exc) /\ UNCHANGED m_droplet
    /\ UNCHANGED <<env, config, m_stdout, m_warned, m_reqs>>
    /\ UNCHANGED waitVars

\* wait_for_droplet comes back: with the document, or with an exception
MainWaitEnds ==
    /\ m_pc = "waiting"
    /\ w_pc = "done"
    /\ IF w_out.kind = "returned"
       THEN /\ m_droplet' = w_out.doc
            /\ m_pc' = "emit"
            /\ UNCHANGED <<m_exit, m_stderr>>
       ELSE MainFails(w_out.exc) /\ UNCHANGED m_droplet
    /\ UNCHANGED <<env, config, m_stdout, m_warned, m_reqs>>
    /\ UNCHANGED waitVars

\* print(json.dumps(droplet, indent=2)); main returns, the process exits with 0
MainEmit ==
    /\ m_pc = "emit"
    /\ m_stdout' = m_droplet
    /\ m_exit' = Exit(0)
    /\ m_pc' = "exited"
    /\ UNCHANGED <<env, config, m_droplet, m_stderr, m_warned, m_reqs>>
    /\ UNCHANGED waitVars

-----------------------------------------------------------------------------
(* mcp_server.py: the catalog, get_api_client and call_tool *)

\* the ten Tool names of list_tools, and what a caller may send besides
Catalog ==
    {"do_list_regions", "do_list_sizes", "do_list_snapshots", "do_get_snapshot",
     "do_list_droplets", "do_get_droplet", "do_create_droplet", "do_delete_droplet",
     "do_list_ssh_keys", "do_get_account_info"}
ToolNames == Catalog \cup {"do_reboot_droplet", ""}

\* inputSchema "required" of each Tool
RequiredArgs(name) ==
    CASE name = "do_get_snapshot"   -> {"snapshot_id"}
      [] name = "do_get_droplet"    -> {"droplet_id"}
      [] name = "do_delete_droplet" -> {"droplet_id"}
      [] name = "do_create_droplet" -> {"name", "region", "size", "image"}
      [] OTHER                      -> {}

NoArgs == [k \in {} |-> ""]

\* argument maps a caller sends with each name
ArgMaps(name) ==
    CASE name = "do_list_sizes"     -> {NoArgs, [gpu_only |-> TRUE]}
      [] name = "do_get_snapshot"   -> {NoArgs, [snapshot_id |-> "snap-1"]}
      [] name = "do_get_droplet"    -> {NoArgs, [droplet_id |-> "7"]}
      [] name = "do_delete_droplet" -> {NoArgs, [droplet_id |-> "7"]}
      [] name = "do_create_droplet" ->
            { NoArgs,
              [name |-> "gpu-1", region |-> "nyc1", image |-> "snap-1"],
              [name |-> "gpu-1", region |-> "nyc1", size |-> "g-2vcpu", image |-> "snap-1",
               tags |-> <<"gpu">>, user_data |-> "", monitoring |-> TRUE] }
      [] name = "do_reboot_droplet" -> {NoArgs, [droplet_id |-> "7"]}
      [] OTHER                      -> {NoArgs}

\* a value placed in a path by an f-string: None prints as "None"
Fmt(args, key) == IF key \in DOMAIN args THEN args[key] ELSE "None"

\* truth value of an optional argument: None, [] (a list) and "" (a text) are false
Given(args, key) ==
    key \in DOMAIN args /\ args[key] # (IF key = "user_data" THEN "" ELSE <<>>)

\* the optional keys tested with "is not None" instead of their truth value
DropletDataNotNone(args) ==
    LET base == [name |-> args.name, region |-> args.region, size |-> args.size,
                 image |-> args.image,
                 monitoring |-> Get(args, "monitoring", FALSE),
                 ipv6 |-> Get(args, "ipv6", FALSE),
                 private_networking |-> Get(args, "private_networking", TRUE)]
        opt == {"ssh_keys", "tags", "user_data"} \cap DOMAIN args
    IN  [k \in DOMAIN base \cup opt |-> IF k \in opt THEN args[k] ELSE base[k]]

\* DigitalOceanAPI.create_droplet: the request body
DropletData(args) ==
    LET base == [name |-> args.name, region |-> args.region, size |-> args.size,
                 image |-> args.image,
                 monitoring |-> Get(args, "monitoring", FALSE),
                 ipv6 |-> Get(args, "ipv6", FALSE),
                 private_networking |-> Get(args, "private_networking", TRUE)]
        opt == {k \in {"ssh_keys", "tags", "user_data"} : Given(args, k)}
    IN  [k \in DOMAIN base \cup opt |-> IF k \in opt THEN args[k] ELSE base[k]]

NoClient == [none |-> TRUE]
\* DigitalOceanAPI(api_token); serial tells one instance from another
NewClient(token, serial) == [api_token |-> token, serial |-> serial]

CredentialError ==
    Exc("ValueError", <<"DIGITALOCEAN_API_TOKEN environment variable is not set">>)

\* the "is None" test lost: every call constructs a client
GetApiClientAlwaysNew(current, e, serial) ==
    IF ~Truthy(e) THEN Raise(CredentialError) ELSE Ok(NewClient(e.val, serial + 1))

\* get_api_client: the client to use, or the ValueError
GetApiClient(current, e, serial) ==
    IF current = NoClient
    THEN IF ~Truthy(e) THEN Raise(CredentialError) ELSE Ok(NewClient(e.val, serial + 1))
    ELSE Ok(current)

Request(method, path) == [method |-> method, path |-> path]

\* the first key of keys, in the order given, that args lacks; "" if none
RECURSIVE FirstMissing(_, _)
FirstMissing(args, keys) ==
    IF keys = <<>> THEN ""
    ELSE IF Head(keys) \notin DOMAIN args THEN Head(keys)
    ELSE FirstMissing(args, Tail(keys))

\* the branch of call_tool for name: the request it sends, the exception it
\* raises before sending one, or the final else
Branch(name, args) ==
    CASE name = "do_list_regions"     -> [kind |-> "request", req |-> Request("GET", <<"/regions">>)]
      [] name = "do_list_sizes"       -> [kind |-> "request", req |-> Request("GET", <<"/sizes">>)]
      [] name = "do_list_snapshots"   -> [kind |-> "request", req |-> Request("GET", <<"/images">>)]
      [] name = "do_get_snapshot"     ->
            [kind |-> "request",
             req |-> Request("GET", <<"/snapshots/", Fmt(args, "snapshot_id")>>)]
      [] name = "do_list_droplets"    -> [kind |-> "request", req |-> Request("GET", <<"/droplets">>)]
      [] name = "do_get_droplet"      ->
            [kind |-> "request",
             req |-> Request("GET", <<"/droplets/", Fmt(args, "droplet_id")>>)]
      [] name = "do_create_droplet"   ->
            LET k == FirstMissing(args, <<"name", "region", "size", "image">>)
            IN  IF k # ""
                THEN [kind |-> "raise", exc |-> Exc("KeyError", <<"'", k, "'">>)]
                ELSE [kind |-> "request",
                      req |-> [method |-> "POST", path |-> <<"/droplets">>,
                               data |-> DropletData(args)]]
      [] name = "do_delete_droplet"   ->
            [kind |-> "request",
             req |-> Request("DELETE", <<"/droplets/", Fmt(args, "droplet_id")>>)]
      [] name = "do_list_ssh_keys"    -> [kind |-> "request", req |-> Request("GET", <<"/account/keys">>)]
      [] name = "do_get_account_info" -> [kind |-> "request", req |-> Request("GET", <<"/account">>)]
      [] OTHER                        -> [kind |-> "unknown"]

\* img.get("type") == "snapshot"
IsSnapshot(img) == "type" \in DOMAIN img /\ img.type = "snapshot"

ImageLists ==
    { <<[id |-> "1", type |-> "distribution"], [id |-> "5", type |-> "snapshot"],
        [id |-> "9", type |-> "snapshot"]>>,
      <<[id |-> "3"]>> }

\* response bodies the remote may give to the request of each tool
Bodies(name) ==
    {NoKeyBody} \cup
    ( CASE name = "do_list_regions"     -> [regions : {<<"nyc1", "sfo3">>}]
        [] name = "do_list_sizes"       ->
              [sizes : {l \in SizeLists : Len(l) \in {0, 3}}]
        [] name = "do_list_snapshots"   -> [images : ImageLists]
        [] name = "do_get_snapshot"     -> [snapshot : Snapshots]
        [] name = "do_list_droplets"    -> [droplets : {<<[id |-> "7", status |-> "active"]>>}]
        [] name = "do_get_droplet"      -> [droplet : {[id |-> "7", status |-> "active"]}]
        [] name = "do_create_droplet"   -> [droplet : CreatedDocs]
        [] name = "do_delete_droplet"   -> {}
        [] name = "do_list_ssh_keys"    -> [ssh_keys : {<<"ab:cd">>}]
        [] name = "do_get_account_info" -> [account : {[email |-> "a@b.c"]}]
        [] OTHER                        -> {} )

\* what the remote would make of the request of a call, were one sent: every
\* kind of failure for three of the tools, an HTTP error for the others
Exchanges(name) ==
    [kind : {"ok"}, json : Bodies(name)]
        \cup {f \in Failures :
                 /\ f.kind = "http_error" => f.body = "json_message"
                 /\ f.kind # "http_error" =>
                       name \in {"do_list_regions", "do_get_droplet", "do_create_droplet"}}

\* what the client method of the tool makes of the response body
Unwrap(name, args, body) ==
    CASE name = "do_list_regions"     -> Get(body, "regions", <<>>)
      [] name = "do_list_sizes"       ->
            IF Get(args, "gpu_only", FALSE)
            THEN SelectSeq(Get(body, "sizes", <<>>), IsGpuSize)
            ELSE Get(body, "sizes", <<>>)
      [] name = "do_list_snapshots"   -> SelectSeq(Get(body, "images", <<>>), IsSnapshot)
      [] name = "do_get_snapshot"     -> Get(body, "snapshot", EmptyDoc)
      [] name = "do_list_droplets"    -> Get(body, "droplets", <<>>)
      [] name = "do_get_droplet"      -> Get(body, "droplet", EmptyDoc)
      [] name = "do_create_droplet"   -> Get(body, "droplet", EmptyDoc)
      [] name = "do_delete_droplet"   -> body
      [] name = "do_list_ssh_keys"    -> Get(body, "ssh_keys", <<>>)
      [] name = "do_get_account_info" -> Get(body, "account", EmptyDoc)

\* TextContent(type="text", text=...): a JSON dump, or plain text in pieces
JsonText(v) == [kind |-> "json", value |-> v]
PlainText(pieces) == [kind |-> "plain", pieces |-> pieces]
ErrorText(e) == PlainText(<<"Error: ">> \o e.msg)
UnknownText(name) == PlainText(<<"Unknown tool: ", name>>)

Answered(text) == [kind |-> "returned", text |-> text]
Escaped(e) == [kind |-> "raised", exc |-> e]

\* the wrong exception class is named
CatchesKeyError(e) == e.type = "KeyError"

\* except ValueError around get_api_client()
CatchesValueError(e) == e.type = "ValueError"

\* only the client's own API errors are caught
CatchesApiErrorOnly(e) == e.type = "Exception"

\* except Exception around the dispatch
CatchesException(e) ==
    e.type \in {"Exception", "ValueError", "KeyError", "ConnectionError", "JSONDecodeError"}

\* how call_tool ends when exception e reaches the handler that catches(e)
Handled(e, caught) == IF caught THEN Answered(ErrorText(e)) ELSE Escaped(e)

NoCall == [none |-> TRUE]
NoExchange == [kind |-> "none"]

\* the second try block of call_tool: the requests it sends and how it ends,
\* when the remote answers the request with exchange x
Dispatch(name, args, x) ==
    LET br == Branch(name, args)
    IN  CASE br.kind = "unknown" ->
               [requests |-> <<>>, outcome |-> Answered(UnknownText(name))]
          [] br.kind = "raise" ->
               [requests |-> <<>>, outcome |-> Handled(br.exc, CatchesException(br.exc))]
          [] br.kind = "request" ->
               LET res == MakeRequest(x)
               IN  [requests |-> <<br.req>>,
                    outcome |-> IF res.ok
                                THEN Answered(JsonText(Unwrap(name, args, res.val)))
                                ELSE Handled(res.exc, CatchesException(res.exc))]

\* the inputs of one call and what the remote holds ready for it
CallInputs ==
    UNION {[name : {n}, args : ArgMaps(n), x : Exchanges(n)] : n \in ToolNames}

\* Dispatch, tabulated over the inputs
Dispatched == [c \in CallInputs |-> Dispatch(c.name, c.args, c.x)]

IsErrorText(out) ==
    out.kind = "returned" /\ out.text.kind = "plain" /\ out.text.pieces[1] = "Error: "

\* what kind of call the latest one was: "none" before the first, else how the
\* credential check or the remote exchange went
CallClass(last) ==
    IF last = NoCall THEN "none"
    ELSE IF last.used = NoClient THEN "no_client"
    ELSE IF last.requests = <<>> THEN "no_request"
    ELSE last.exchange.kind

\* one call_tool(name, arguments)
CallTool ==
    /\ s_calls < MaxCalls
    /\ \E c \in CallInputs :
         LET got == GetApiClient(api_client, s_env, s_serial)
             made == got.ok /\ got.val # api_client
             done == IF got.ok THEN Dispatched[c]
                     ELSE [requests |-> <<>>,
                           outcome |-> Handled(got.exc, CatchesValueError(got.exc))]
         IN  /\ api_client' = IF got.ok THEN got.val ELSE api_client
             /\ s_serial' = IF made THEN s_serial + 1 ELSE s_serial
             /\ s_first' = IF made /\ s_first = NoClient THEN got.val ELSE s_first
             /\ s_calls' = s_calls + 1
             /\ s_errors' = IF IsErrorText(done.outcome) THEN s_errors + 1 ELSE s_errors
             /\ s_last' = [name |-> c.name, args |-> c.args,
                           env |-> s_env,
                           prev |-> CallClass(s_last),
                           before |-> api_client,
                           used |-> IF got.ok THEN got.val ELSE NoClient,
                           requests |-> done.requests,
                           exchange |-> IF done.requests # <<>> THEN c.x ELSE NoExchange,
                           outcome |-> done.outcome]
    /\ UNCHANGED s_env

\* the credential of the process environment is set, changed or removed
TokenValues == {Unset, Value(""), Value("dop_v1_abc"), Value("dop_v1_xyz")}
SetEnv ==
    /\ \E v \in TokenValues \ {s_env} : s_env' = v
    /\ UNCHANGED <<api_client, s_serial, s_first, s_calls, s_errors, s_last>>

-----------------------------------------------------------------------------
(* DigitalOceanAPI.create_droplet and _make_request, called on their own *)

\* an optional parameter: left at its default, or passed a value
NotPassed == [given |-> FALSE]
Passed(v) == [given |-> TRUE, val |-> v]

\* the keyword arguments args with key bound to what was passed, if anything
With(args, key, p) ==
    IF p.given
    THEN [k \in DOMAIN args \cup {key} |-> IF k = key THEN p.val ELSE args[k]]
    ELSE args

\* what a caller passes to create_droplet
Regions == {"nyc1", "sfo3"}
KeyLists == {NotPassed, Passed(<<>>), Passed(<<"3a:fp">>), Passed(<<"3a:fp", "">>)}
TagLists == {NotPassed, Passed(<<>>), Passed(<<"gpu">>)}
UserDatas == {NotPassed, Passed(""), Passed("#cloud-config")}
Flags == {NotPassed, Passed(TRUE), Passed(FALSE)}

\* non-success responses: a JSON object with or without "message", a JSON
\* number, a body that is not JSON
StatusLines == {"404 Client Error", "503 Server Error"}
ErrorResponses ==
    [kind : {"http_error"}, body : {"json_message"},
     message : {"", "not found", "rate limit"}, line : StatusLines]
    \cup [kind : {"http_error"}, body : {"json_other"}, line : StatusLines]
    \cup [kind : {"http_error"}, body : {"json_number"}, text : {"503"}, line : StatusLines]
    \cup [kind : {"http_error"}, body : {"not_json"}, text : RawBodies \cup {""},
          line : StatusLines]

ApiExchanges == CreateExchanges \cup ErrorResponses

NoRequest == [none |-> TRUE]
NoResult == [none |-> TRUE]

\* method.upper()
Upper(m) == IF m = "post" THEN "POST" ELSE IF m = "get" THEN "GET" ELSE m
Methods == {"GET", "post", "DELETE", "PATCH"}
\* the branches of the if/elif chain both files have
Supported == {"GET", "POST", "DELETE"}

UnsupportedMethod(m) == Exc("ValueError", <<"Unsupported HTTP method: ", m>>)

\* create_droplet(name, region, size, image, ssh_keys, tags, user_data,
\* monitoring, ipv6, private_networking)
ApiCreateDroplet ==
    /\ a_call = NoCall
    /\ \E region \in Regions, keys \in KeyLists, tags \in TagLists, ud \in UserDatas,
       mon \in Flags, v6 \in Flags, pn \in Flags, r \in ApiExchanges :
        LET positional == [name |-> "gpu-1", region |-> region,
                           size |-> "g-2vcpu-16gb", image |-> "snap-1"]
            optional == [ssh_keys |-> keys, tags |-> tags, user_data |-> ud,
                         monitoring |-> mon, ipv6 |-> v6, private_networking |-> pn]
            args == With(With(With(With(With(With(positional,
                        "ssh_keys", keys), "tags", tags), "user_data", ud),
                        "monitoring", mon), "ipv6", v6), "private_networking", pn)
        IN  /\ a_call' = [op |-> "create_droplet", positional |-> positional,
                          optional |-> optional, x |-> r]
            /\ a_request' = [method |-> "POST", path |-> <<"/droplets">>,
                             data |-> DropletData(args)]
            /\ a_out' = CreateDroplet(r)

\* _make_request(method, endpoint)
ApiMakeRequest ==
    /\ a_call = NoCall
    /\ \E m \in Methods, r \in ApiExchanges :
        IF Upper(m) \in Supported
        THEN /\ a_call' = [op |-> "_make_request", method |-> m, x |-> r]
             /\ a_request' = Request(Upper(m), <<"/droplets">>)
             /\ a_out' = MakeRequest(r)
        ELSE /\ a_call' = [op |-> "_make_request", method |-> m, x |-> NoExchange]
             /\ a_request' = NoRequest
             /\ a_out' = Raise(UnsupportedMethod(m))

-----------------------------------------------------------------------------
(* Initial states and specifications *)

Timeouts == {-1, 0, 5, 12, 23}
ClockStarts == {0, 3}

WaitFields(pc, id, limit) ==
    /\ w_pc = pc
    /\ w_id = id
    /\ timeout = limit
    /\ start_time = 0
    /\ droplet = NoDoc
    /\ w_out = Running
    /\ nGet = 0
    /\ nSleep = 0
    /\ polled = NoDoc
    /\ firstTerm = 0
    /\ termDoc = NoDoc
    /\ reqFailed = FALSE

MainFields(pc, e) ==
    /\ env = e
    /\ m_pc = pc
    /\ config = [snapshot_id |-> Unset, wait_for_active |-> FALSE]
    /\ m_droplet = NoDoc
    /\ m_exit = NotExited
    /\ m_stdout = NoDoc
    /\ m_stderr = NoExc
    /\ m_warned = FALSE
    /\ m_reqs = <<>>

ServerFields(e) ==
    /\ s_env = e
    /\ api_client = NoClient
    /\ s_serial = 0
    /\ s_first = NoClient
    /\ s_calls = 0
    /\ s_errors = 0
    /\ s_last = NoCall

ApiFields ==
    /\ a_call = NoCall
    /\ a_request = NoRequest
    /\ a_out = NoResult

NoEnv == [k \in EnvNames |-> Unset]

\* a direct call wait_for_droplet(droplet_id, timeout)
InitWait ==
    /\ clock \in ClockStarts
    /\ \E id \in DropletIds, limit \in Timeouts : WaitFields("start", id, limit)
    /\ MainFields("off", NoEnv)
    /\ ServerFields(Unset)
    /\ ApiFields

WaitNext == WaitSteps /\ UNCHANGED <<mainVars, srvVars, apiVars>>

SpecWait == InitWait /\ [][WaitNext]_vars

\* the same call in a process that keeps running: the interpreter takes the
\* next step of the call whenever there is one
SpecWaitFair == SpecWait /\ WF_vars(WaitNext)

EnvValues ==
    [k \in EnvNames |->
        CASE k = "DIGITALOCEAN_API_TOKEN" -> {Unset, Value(""), Value("dop_v1_abc")}
          [] k = "SNAPSHOT_ID"            -> {Unset, Value(""), Value("snap-1")}
          [] k = "WAIT_FOR_ACTIVE"        -> {Unset, Value("TRUE"), Value("false"), Value("yes")}]

\* one run of deploy_gpu_droplet.py
InitMain ==
    /\ clock \in ClockStarts
    /\ WaitFields("idle", "None", DefaultTimeout)
    /\ \E e \in [EnvNames -> UNION {EnvValues[k] : k \in EnvNames}] :
         /\ \A k \in EnvNames : e[k] \in EnvValues[k]
         /\ MainFields("token", e)
    /\ ServerFields(Unset)
    /\ ApiFields

MainNext ==
    \/ (MainCheckToken /\ UNCHANGED <<srvVars, apiVars>>)
    \/ (MainCheckSnapshotId /\ UNCHANGED <<srvVars, apiVars>>)
    \/ (MainGetSnapshot /\ UNCHANGED <<srvVars, apiVars>>)
    \/ (MainGetGpuSizes /\ UNCHANGED <<srvVars, apiVars>>)
    \/ (MainCreateDroplet /\ UNCHANGED <<srvVars, apiVars>>)
    \/ (MainCallWait /\ UNCHANGED <<srvVars, apiVars>>)
    \/ (MainSkipWait /\ UNCHANGED <<srvVars, apiVars>>)
    \/ (MainWaitEnds /\ UNCHANGED <<srvVars, apiVars>>)
    \/ (MainEmit /\ UNCHANGED <<srvVars, apiVars>>)
    \/ (WaitSteps /\ UNCHANGED <<mainVars, srvVars, apiVars>>)

SpecMain == InitMain /\ [][MainNext]_vars

\* one run of the server process
InitServer ==
    /\ clock = 0
    /\ WaitFields("idle", "None", DefaultTimeout)
    /\ MainFields("off", NoEnv)
    /\ \E e \in TokenValues : ServerFields(e)
    /\ ApiFields

ServerNext ==
    \/ (CallTool /\ UNCHANGED <<waitVars, mainVars, apiVars>>)
    \/ (SetEnv /\ UNCHANGED <<waitVars, mainVars, apiVars>>)

SpecServer == InitServer /\ [][ServerNext]_vars

\* one call of one of the client's methods, on a fresh client
InitApi ==
    /\ clock = 0
    /\ WaitFields("idle", "None", DefaultTimeout)
    /\ MainFields("off", NoEnv)
    /\ ServerFields(Unset)
    /\ ApiFields

ApiNext ==
    \/ (ApiCreateDroplet /\ UNCHANGED <<waitVars, mainVars, srvVars>>)
    \/ (ApiMakeRequest /\ UNCHANGED <<waitVars, mainVars, srvVars>>)

SpecApi == InitApi /\ [][ApiNext]_vars

-----------------------------------------------------------------------------
(* Claims about wait_for_droplet, checked under SpecWait *)

SawActive == firstTerm # 0 /\ termDoc.status = "active"
SawError == firstTerm # 0 /\ termDoc.status = "error"

\* C1: the first poll that observes "active" ends the call: the call has
\* returned exactly the document of that poll (so it raised nothing), and the
\* number of get-droplet requests stays the index of that poll.
C1_ActiveReturnsThatPoll ==
    SawActive =>
        /\ w_pc = "done"
        /\ w_out = Returned(termDoc)
        /\ polled = termDoc
        /\ nGet = firstTerm

\* C1 witness: statuses "new", "new", "active": returned after exactly three polls
C1_Witness ==
    /\ SawActive
    /\ firstTerm = 3
    /\ nGet = 3
    /\ nSleep = 2
    /\ w_out = Returned(termDoc)

\* C2: the first poll that observes "error" makes the call fail at once with
\* the failure-state error: no sleep and no get-droplet request follows that
\* poll, and no document is returned.
C2_ErrorFailsAtOnce ==
    SawError =>
        /\ w_pc = "done"
        /\ w_out = Raised(ErrorStateExc(w_id))
        /\ w_out.kind # "returned"
        /\ nGet = firstTerm
        /\ nSleep = firstTerm - 1

\* C2 witness: statuses "new", "error": failed on the second poll
C2_Witness ==
    /\ SawError
    /\ firstTerm = 2
    /\ nGet = 2
    /\ nSleep = 1
    /\ w_out = Raised(ErrorStateExc(w_id))

IsTimeout == w_out = Raised(TimeoutExc(w_id, timeout))

-----------------------------------------------------------------------------
(* Claims about main, checked under SpecMain *)

Missing(e) == ~e.set \/ e.val = ""
InputsMissing == Missing(env["DIGITALOCEAN_API_TOKEN"]) \/ Missing(env["SNAPSHOT_ID"])
StepOrder == <<"get_snapshot", "get_sizes", "create_droplet">>
Served(n) == Len(m_reqs) >= n /\ m_reqs[n].ok
AllServed == Served(1) /\ Served(2) /\ Served(3)
SomeRefused == \E i \in 1..Len(m_reqs) : ~m_reqs[i].ok
WaitBegun == w_pc # "idle" \/ nGet > 0

\* C9: the workflow issues its requests in the order snapshot, GPU sizes,
\* create, then polls, then prints the document; a step that fails is the last
\* one. With the credential or the snapshot identifier missing no request is
\* issued; the create request is issued at most once and only after the
\* snapshot fetch was served; polling starts only after the create request was
\* served; the document is printed only after every step before it succeeded.
C9_StepsInOrder ==
    /\ Len(m_reqs) <= 3
    /\ \A i \in 1..Len(m_reqs) :
          /\ m_reqs[i].op = StepOrder[i]
          /\ i < Len(m_reqs) => m_reqs[i].ok
    /\ InputsMissing => m_reqs = <<>> /\ ~WaitBegun /\ m_stdout = NoDoc
    /\ SomeRefused => m_pc = "exited" /\ ~WaitBegun /\ m_stdout = NoDoc
    /\ WaitBegun => AllServed /\ config.wait_for_active
    /\ (w_pc = "done" /\ w_out.kind = "raised") =>
          m_pc \in {"waiting", "exited"} /\ m_stdout = NoDoc
    /\ m_stdout # NoDoc =>
          /\ AllServed
          /\ config.wait_for_active => w_pc = "done" /\ w_out.kind = "returned"

\* C9 witness: a complete run: three requests, three polls, the document printed
C9_Witness ==
    /\ m_stdout # NoDoc
    /\ Len(m_reqs) = 3
    /\ nGet = 3
    /\ m_pc = "exited"

\* C10: the exit code is 0 exactly when validation passed, the three requests
\* were served and, with waiting on, the poll returned an active droplet; it is
\* 1 exactly when validation failed, a request was refused or the poll raised
\* (request error, error state, timeout). The empty-GPU-list warning leaves
\* the create request and the exit code as they would be without it.
C10_ExitCode ==
    /\ (m_pc = "exited") = (m_exit # NotExited)
    /\ m_exit # NotExited => m_exit \in {Exit(0), Exit(1)}
    /\ m_exit = Exit(0) =>
          /\ ~InputsMissing
          /\ AllServed
          /\ config.wait_for_active =>
                w_out.kind = "returned" /\ StatusOf(w_out.doc) = "active"
    /\ m_exit = Exit(1) =>
          \/ InputsMissing
          \/ SomeRefused
          \/ config.wait_for_active /\ w_pc = "done" /\ w_out.kind = "raised"
    /\ m_warned => Served(2) /\ (m_pc \notin {"create"} => Len(m_reqs) = 3)

\* C10 witness: no GPU size was listed, and the run still created, polled and exited with 0
C10_Witness ==
    /\ m_warned
    /\ m_exit = Exit(0)
    /\ config.wait_for_active
    /\ nGet >= 2

-----------------------------------------------------------------------------
(* Claims about call_tool and get_api_client, checked under SpecServer *)

Called == s_last # NoCall
StartsWithError(out) ==
    out.kind = "returned" /\ out.text.kind = "plain" /\ Head(out.text.pieces) = "Error: "
CredentialAbsent(e) == ~e.set \/ e.val = ""
CredentialText ==
    PlainText(<<"Error: ", "DIGITALOCEAN_API_TOKEN environment variable is not set">>)

\* C4 as stated: a call with a name outside the catalog is answered with the
\* text "Unknown tool: <name>", in every server state.
C4_AsStated ==
    (Called /\ s_last.name \notin Catalog) =>
        s_last.outcome = Answered(PlainText(<<"Unknown tool: ", s_last.name>>))

\* C5: no call_tool raises; a call whose remote exchange fails (HTTP error,
\* transport error, unreadable body) is answered with a text that begins
\* "Error: "; and however many calls were answered with errors before, a call
\* whose exchange the remote serves is answered with the JSON of its result.
C5_FailuresContained ==
    Called =>
        /\ s_last.outcome.kind = "returned"
        /\ s_last.exchange.kind \in {"http_error", "transport", "bad_json"} =>
              StartsWithError(s_last.outcome)
        /\ s_last.exchange.kind = "ok" =>
              /\ s_last.outcome.text.kind = "json"
              /\ s_last.name \in Catalog
              /\ s_last.outcome.text.value
                    = Unwrap(s_last.name, s_last.args, s_last.exchange.json)

\* C5 witness: two calls were answered with errors, the second after a transport failure,
\* and the third call is served
C5_Witness ==
    /\ Called
    /\ s_errors = 2
    /\ s_last.prev = "transport"
    /\ s_last.exchange.kind = "ok"
    /\ s_last.outcome.text.kind = "json"

MissesRequired(last) == ~(RequiredArgs(last.name) \subseteq DOMAIN last.args)

\* C6 as stated: a call of a tool without an argument its schema requires is
\* answered with a text reporting the error.
C6_AsStated ==
    (Called /\ MissesRequired(s_last)) => StartsWithError(s_last.outcome)

\* C7: at most one client instance is ever constructed; api_client is unset
\* until then and is that first instance ever after, whatever the credential
\* becomes; every call that has a client uses that instance.
C7_OneClient ==
    /\ s_serial <= 1
    /\ s_serial = 0 => api_client = NoClient /\ s_first = NoClient
    /\ s_serial >= 1 => s_first # NoClient /\ api_client = s_first
    /\ Called =>
          /\ s_last.used \in {NoClient, s_first}
          /\ s_last.before # NoClient => s_last.used = s_last.before

\* C7 witness: a call reuses the client although the credential has changed since
C7_Witness ==
    /\ Called
    /\ s_last.before # NoClient
    /\ s_last.used = s_first
    /\ s_last.env.set
    /\ s_last.env.val \notin {"", s_first.api_token}

\* C8 as stated: every call made while the credential is absent is answered
\* with the credential error, sends no request and leaves api_client unset.
C8_AsStated ==
    (Called /\ CredentialAbsent(s_last.env)) =>
        /\ s_last.outcome = Answered(CredentialText)
        /\ s_last.requests = <<>>
        /\ s_last.used = NoClient

\* C8, amended: every call made while the credential is absent and no client
\* has been constructed yet is answered with the credential error, sends no
\* request, leaves api_client unset and raises nothing; a call made with the
\* credential present and no client yet constructs the client from that
\* credential and is dispatched as usual, also after such errors.
C8_AbsentCredentialBeforeClient ==
    /\ (Called /\ CredentialAbsent(s_last.env) /\ s_last.before = NoClient) =>
          /\ s_last.outcome = Answered(CredentialText)
          /\ s_last.requests = <<>>
          /\ s_last.used = NoClient
    /\ (s_serial = 0 /\ Called) => api_client = NoClient /\ CredentialAbsent(s_last.env)
    /\ (Called /\ ~CredentialAbsent(s_last.env) /\ s_last.before = NoClient) =>
          /\ s_last.used # NoClient
          /\ s_last.used.api_token = s_last.env.val
          /\ s_last.outcome # Answered(CredentialText)
          /\ s_last.name \in Catalog =>
                (s_last.requests # <<>> \/ s_last.name = "do_create_droplet")

\* C8 witness: two calls failed for want of the credential; the credential was then set,
\* and the third call constructed the client and was served
C8_Witness ==
    /\ Called
    /\ s_last.prev = "no_client"
    /\ s_errors = 2
    /\ s_last.before = NoClient
    /\ s_last.used # NoClient
    /\ s_last.exchange.kind = "ok"
    /\ s_last.outcome.text.kind = "json"

-----------------------------------------------------------------------------
(* Claims about the client's methods, checked under SpecApi *)

CreateCalled == a_call # NoCall /\ a_call.op = "create_droplet"
OptionalKeys == {"ssh_keys", "tags", "user_data"}
FlagKeys == {"monitoring", "ipv6", "private_networking"}
FlagDefault(key) == key = "private_networking"
EmptyValue(key) == IF key = "user_data" THEN "" ELSE <<>>
\* supplied: passed, and neither None nor empty
Supplied(key, p) == p.given /\ p.val # EmptyValue(key)

\* C11: the body create_droplet posts always has name, region, size, image
\* (the snapshot) and the three flags, each flag with the value passed or else
\* its default (monitoring false, ipv6 false, private_networking true); each
\* of ssh_keys, tags, user_data is in the body exactly when it was supplied,
\* then with the supplied value, and never with an empty or null value.
C11_CreateBody ==
    CreateCalled =>
        LET body == a_request.data
            pos == a_call.positional
            opt == a_call.optional
        IN  /\ a_request.method = "POST"
            /\ DOMAIN body \subseteq
                   {"name", "region", "size", "image"} \cup FlagKeys \cup OptionalKeys
            /\ {"name", "region", "size", "image"} \cup FlagKeys \subseteq DOMAIN body
            /\ body.name = pos.name /\ body.region = pos.region
            /\ body.size = pos.size /\ body.image = pos.image
            /\ \A f \in FlagKeys :
                 body[f] = (IF opt[f].given THEN opt[f].val ELSE FlagDefault(f))
            /\ \A k \in OptionalKeys :
                 /\ (k \in DOMAIN body) <=> Supplied(k, opt[k])
                 /\ k \in DOMAIN body =>
                      body[k] = opt[k].val /\ body[k] # EmptyValue(k)

\* C11 witness: ssh_keys supplied, tags passed empty, user_data and the flags
\* left alone; the body has the keys, no tags, no user_data, the default flags
C11_Witness ==
    /\ CreateCalled
    /\ a_call.optional.ssh_keys = Passed(<<"3a:fp">>)
    /\ a_call.optional.tags = Passed(<<>>)
    /\ a_call.optional.user_data = NotPassed
    /\ \A f \in FlagKeys : a_call.optional[f] = NotPassed
    /\ DOMAIN a_request.data \cap OptionalKeys = {"ssh_keys"}
    /\ a_request.data.ssh_keys = <<"3a:fp">>
    /\ a_request.data.private_networking /\ ~a_request.data.monitoring

HttpFailed == a_call # NoCall /\ a_call.x.kind = "http_error"

\* C12, as stated: after a non-success response the raised text is exactly the
\* body's "message" value when the body is JSON with that field, and exactly
\* the raw body text when the body is not JSON.
C12_AsStated ==
    HttpFailed =>
        /\ ~a_out.ok
        /\ a_call.x.body = "json_message" => a_out.exc.msg = <<a_call.x.message>>
        /\ a_call.x.body = "not_json" => a_out.exc.msg = <<a_call.x.text>>

\* C12, amended: after a non-success response an Exception is raised whose
\* text is "API Error: " followed by exactly the body's "message" value when
\* the body is a JSON object with that field, and "API Error: " followed by
\* the raw body text when the body is not JSON; in neither case the status line.
C12_ErrorTextPrefixed ==
    HttpFailed =>
        /\ ~a_out.ok
        /\ a_out.exc.type = "Exception"
        /\ a_call.x.body = "json_message" =>
              a_out.exc.msg = <<"API Error: ", a_call.x.message>>
        /\ a_call.x.body = "not_json" =>
              a_out.exc.msg = <<"API Error: ", a_call.x.text>>
        /\ a_call.x.body \in {"json_message", "not_json"} =>
              a_out.exc.msg[2] # a_call.x.line

\* C12 witness: a 404 whose JSON body says "rate limit" came back to _make_request
C12_Witness ==
    /\ HttpFailed
    /\ a_call.op = "_make_request"
    /\ a_call.x.body = "json_message"
    /\ a_call.x.message = "rate limit"
    /\ a_out = Raise(Exc("Exception", <<"API Error: ", "rate limit">>))

-----------------------------------------------------------------------------
(* Claims about main's use of wait_for_droplet, checked under SpecMain *)

WaitEnabled == config.wait_for_active
Emitted == m_stdout # NoDoc

\* C13: main polls exactly when WAIT_FOR_ACTIVE is on. With it off no
\* get-droplet request is issued and the document printed is the one
\* create_droplet returned; with it on the document printed is the one the poll
\* that observed "active" returned, that poll being the last; nothing is
\* printed when the poll raised (request error, error state, timeout).
C13_PollIffEnabled ==
    /\ WaitBegun => WaitEnabled /\ Served(3)
    /\ (Served(3) /\ ~WaitEnabled) => w_pc = "idle" /\ nGet = 0 /\ nSleep = 0
    /\ (Served(3) /\ WaitEnabled /\ m_pc \in {"emit", "exited"}) => w_pc = "done"
    /\ (Emitted /\ ~WaitEnabled) => m_stdout = m_reqs[3].doc
    /\ (Emitted /\ WaitEnabled) =>
          /\ firstTerm = nGet /\ firstTerm > 0
          /\ termDoc.status = "active"
          /\ m_stdout = termDoc
    /\ (w_pc = "done" /\ w_out.kind = "raised") => ~Emitted

\* C13 witness: waiting is on, the second poll observed "active", and its
\* document, not the creation response, was printed
C13_Witness ==
    /\ Emitted
    /\ WaitEnabled
    /\ nGet = 2
    /\ StatusOf(m_stdout) = "active"
    /\ StatusOf(m_reqs[3].doc) = "new"
    /\ m_stdout # m_reqs[3].doc

-----------------------------------------------------------------------------
(* Termination of wait_for_droplet, checked under SpecWaitFair *)

\* ceil(limit / 5), and 0 for a budget of zero or less
MostPolls(limit) ==
    IF limit <= 0 THEN 0 ELSE (limit + PollInterval - 1) \div PollInterval

ThreeOutcomes ==
    \/ w_out.kind = "returned" /\ StatusOf(w_out.doc) = "active"
    \/ w_out = Raised(ErrorStateExc(w_id))
    \/ w_out = Raised(TimeoutExc(w_id, timeout))

WaitAccounting ==
    /\ w_pc # "done" => w_out = Running
    /\ (w_pc = "done" /\ ~reqFailed) =>
          ThreeOutcomes /\ ErrorStateExc(w_id) # TimeoutExc(w_id, timeout)
    /\ w_pc \in {"check", "poll"} => nSleep = nGet
    /\ w_pc = "sleep" => nGet = nSleep + 1
    /\ w_pc = "done" => nSleep = (IF IsTimeout THEN nGet ELSE nGet - 1)
    /\ w_pc # "start" => clock - start_time >= PollInterval * nSleep
    /\ nGet <= MostPolls(timeout)
    /\ timeout <= 0 => nGet = 0 /\ (w_pc = "done" => IsTimeout)

\* C14: every call of wait_for_droplet ends, and when no get-droplet request
\* raised it ends in exactly one of: the active document returned, the
\* error-state exception, the timeout exception. Every poll that observed a
\* non-terminal status is followed by one sleep of the 5-second interval before
\* the budget is compared again; at most ceil(timeout / 5) polls are made; with
\* a budget of zero or less no poll is made before the timeout.
C14_Terminates == <>(w_pc = "done") /\ []WaitAccounting

\* C14 witness: a budget of 12 seconds was used up by three polls, each
\* followed by its sleep, and the call ended with the timeout
C14_Witness ==
    /\ w_pc = "done"
    /\ timeout = 12
    /\ nGet = MostPolls(timeout)
    /\ nSleep = 3
    /\ IsTimeout
    /\ ~reqFailed

====
